---- MODULE Spec2Model ----
(***************************************************************************)
(* Task pipelines of xlml/apis/task.py.  A pipeline is composed once (the  *)
(* run* methods build Airflow task groups, XComArg arguments and ">>"      *)
(* dependencies) and is then executed by the Airflow scheduler, task by    *)
(* task, under each task's trigger rule.                                   *)
(***************************************************************************)
EXTENDS Integers, FiniteSets, Sequences, TLC

\* Number of pipeline instances of the multi-instance specification.
MaxInst == 2

Insts == 1..MaxInst

VARIABLES
  cfg,        \* [inst -> the task object's fields and the entry point's arguments]
  tasks,      \* [inst -> the task ids of the composed pipeline]
  args,       \* [inst -> {<<task, parameter, producer task>>}], the XComArg arguments
  edges,      \* [inst -> {<<upstream, downstream>>}]
  outer,      \* [inst -> the task group enclosing the pipeline's own group]
  metric,     \* [inst -> the MetricConfig object (task_metric_config)]
  test_config, \* [inst -> the test config object (task_test_config)]
  params,     \* [inst -> {<<task, parameter, value>>}], the plain arguments
  st,         \* [inst -> [task -> Airflow task-instance state]]
  xcom,       \* [inst -> [task -> the value the task returned, 0 when none]]
  tries,      \* [inst -> [task -> number of times the task was run]]
  dag_retries, \* retries the DAG gives a task that sets none itself
  resources,  \* names of the compute resources (queued resources, VMs) that exist
  created,    \* history: {<<inst, name>>}, creations requested
  deleted,    \* history: {<<inst, name>>}, deletions executed
  vmKeys,     \* {<<instance name, ssh key>>}: keys installed on pre-existing VMs
  keyOps,     \* history: {<<inst, "add" | "remove", instance name, key>>}
  workloads,  \* ids of the cluster workloads that exist
  jobs,       \* instances whose batch job was created on the cluster
  raised      \* history: [inst -> tasks whose execution raised an error]

vars == <<cfg, tasks, args, edges, outer, metric, test_config, params, st, xcom,
          tries, dag_retries, resources, created, deleted, vmKeys, keyOps,
          workloads, jobs, raised>>

composeVars == <<cfg, tasks, args, edges, outer, metric, test_config, params,
                 dag_retries>>
envVars == <<resources, created, deleted, vmKeys, keyOps, workloads, jobs>>

(***************************************************************************)
(* Task ids.                                                               *)
(***************************************************************************)
AllTasks ==
  { "generate_tpu_name", "generate_gpu_name", "generate_ssh_keys",
    "generate_gcs_folder_location", "gcs_location",
    "create_queued_resource_request", "wait_for_ready_queued_resource",
    "create_resource", "get_existing_resource", "setup", "run_model",
    "generate_process_id", "xplane_to_metrics", "process_metrics",
    "delete_queued_resource", "delete_resource", "clean_up_ssh_keys",
    "generate_workload_id", "run_workload", "wait_for_workload_start",
    "wait_for_workload_completion", "clean_up_workload",
    "generate_run_name", "generate_tb_file_location",
    "generate_profile_file_location", "run_job" }

(***************************************************************************)
(* Airflow's dependency operators.                                         *)
(***************************************************************************)
\* XComArg arguments create an upstream relation from the producing task.
XComEdges(A) == { <<a[3], a[1]>> : a \in A }

\* TaskGroup.get_roots / get_leaves: the tasks of the group without an
\* upstream (downstream) task inside the group.
Roots(G, E) == { t \in G : ~ \E u \in G : <<u, t>> \in E }
Leaves(G, E) == { t \in G : ~ \E d \in G : <<t, d>> \in E }

\* "up >> down" between groups of tasks: every leaf of up precedes every
\* root of down.
Chain(up, down, E) == E \cup (Leaves(up, E) \X Roots(down, E))

(***************************************************************************)
(* Configuration objects.                                                  *)
(***************************************************************************)
\* benchmark ids of the test configs, and those QuarantineTests lists.
Benchmarks == {"bench_a", "bench_q"}
QuarantinedTests == {"bench_q"}
is_quarantined(test_name) == test_name \in QuarantinedTests

\* metric_config.MetricConfig: absent, without a profile, or with one.  A
\* file location is a plain string ("static") or the XComArg of the task
\* that resolves it (the task's id).
MetricKinds == {"none", "plain", "profile"}
MetricConfig(kind, runtime_gcs) ==
  [ present |-> kind # "none",
    profile |-> kind = "profile",
    use_runtime_generated_gcs_folder |-> (kind # "none" /\ runtime_gcs),
    tb_file_location |-> "static",
    profile_file_location |-> "static",
    profile_metrics |-> "unset" ]

NoMetric == MetricConfig("none", FALSE)

\* Runtime values (XCom values, names): a kind and an identity.
Val(kind, n) == [kind |-> kind, of |-> n]
None == Val("none", 0)

\* The VM a GpuCreateResourceTask may be pointed at (existing_instance_name);
\* it exists before any pipeline runs.
ExistingInstance == Val("name", 0)

\* test_config.TestConfig: the fields task.py reads.  The timeout is a
\* timedelta, held in milliseconds.
TestConfig(test_name, num_hosts, timeout, count) ==
  [ test_name |-> test_name, num_hosts |-> num_hosts, timeout |-> timeout,
    accelerator_count |-> count, run_model_cmds |-> <<"train">> ]

DefaultTestConfig == TestConfig("pt_nightly", 1, 3600000, 1)

NoCfg ==
  [ class |-> "none", entry |-> "none", benchmark_id |-> "none",
    metric_kind |-> "none", runtime_gcs |-> FALSE,
    skip_post_process |-> FALSE, gcs_supplied |-> FALSE,
    existing_instance_name |-> None,
    test_config |-> DefaultTestConfig, all_workers |-> TRUE,
    run_name_env |-> "M_RUN_NAME" ]

\* A composed pipeline: what a run* method leaves behind in the DAG, and
\* the commands it has put in front of task_test_config.run_model_cmds.
Pipeline(T, A, E, mc) ==
  [ tasks |-> T, args |-> A, edges |-> E, metric |-> mc, outer |-> "dag",
    params |-> {}, prepended |-> << >> ]

(***************************************************************************)
(* Post-process groups.                                                    *)
(***************************************************************************)
PostProcessTasks == {"generate_process_id", "process_metrics"}

\* The post_process group of run_queued_resource_test, GpuCreateResourceTask
\* and GpuGkeTask: process id, then process_metrics on the result location.
PlainPostProcessArgs(location) ==
  { <<"process_metrics", "process_id", "generate_process_id">>,
    <<"process_metrics", "folder_location", location>> }

(***************************************************************************)
(* run_queued_resource_test                                                *)
(***************************************************************************)
QrInitialize ==
  {"generate_tpu_name", "generate_ssh_keys", "generate_gcs_folder_location"}
QrCreate == {"create_queued_resource_request", "wait_for_ready_queued_resource"}
QrProvision == QrInitialize \cup QrCreate \cup {"setup"}

\* Mutant: clean_up left out of the chain.
QrStageChain_NoCleanUp(E) ==
  Chain({"run_model"}, PostProcessTasks, Chain(QrProvision, {"run_model"}, E))

\* Mutant: run_model is not chained after provision.
QrStageChain_RunUnchained(E) ==
  Chain(PostProcessTasks, {"delete_queued_resource"},
        Chain({"run_model"}, PostProcessTasks, E))

\* provision >> run_model >> post_process >> clean_up
QrStageChain(E) ==
  LET E1 == Chain(QrProvision, {"run_model"}, E)
      E2 == Chain({"run_model"}, PostProcessTasks, E1)
  IN Chain(PostProcessTasks, {"delete_queued_resource"}, E2)

\* Mutant: the deletion is given the generated name, not the name the
\* creation request returned.
QrCleanUpArgs_TpuName ==
  { <<"delete_queued_resource", "qualified_name", "generate_tpu_name">> }

\* clean_up = tpu.delete_queued_resource(queued_resource_name)
QrCleanUpArgs ==
  { <<"delete_queued_resource", "qualified_name", "create_queued_resource_request">> }

\* str.startswith
StartsWith(str, prefix) ==
  Len(str) >= Len(prefix) /\ SubSeq(str, 1, Len(prefix)) = prefix

\* Mutant: the setup script is given the caller's flag as it is.
SetupAllWorkers_Flag(tc, all_workers) == all_workers

\* True if task_test_config.test_name.startswith("tf_") else all_workers
SetupAllWorkers(tc, all_workers) ==
  IF StartsWith(tc.test_name, "tf_") THEN TRUE ELSE all_workers

\* Mutant: "queued_resource_op >> setup" is left out.
run_queued_resource_test_SetupUnchained(tc, mc, all_workers) ==
  LET A == { <<"create_queued_resource_request", "tpu_name", "generate_tpu_name">>,
             <<"create_queued_resource_request", "ssh_keys", "generate_ssh_keys">>,
             <<"wait_for_ready_queued_resource", "qualified_name",
               "create_queued_resource_request">>,
             <<"setup", "qualified_name", "create_queued_resource_request">>,
             <<"setup", "ssh_keys", "generate_ssh_keys">>,
             <<"run_model", "qualified_name", "create_queued_resource_request">>,
             <<"run_model", "ssh_keys", "generate_ssh_keys">>,
             <<"run_model", "env_GCS_OUTPUT", "generate_gcs_folder_location">> }
            \cup QrCleanUpArgs
            \cup PlainPostProcessArgs("generate_gcs_folder_location")
      E0 == XComEdges(A)
      E1 == E0
  IN [ Pipeline(QrProvision \cup {"run_model", "delete_queued_resource"}
                  \cup PostProcessTasks, A, QrStageChain(E1), mc)
       EXCEPT !.params =
         { <<"setup", "all_workers", SetupAllWorkers(tc, all_workers)>>,
           <<"run_model", "all_workers", all_workers>> } ]

run_queued_resource_test(tc, mc, all_workers) ==
  LET A == { <<"create_queued_resource_request", "tpu_name", "generate_tpu_name">>,
             <<"create_queued_resource_request", "ssh_keys", "generate_ssh_keys">>,
             <<"wait_for_ready_queued_resource", "qualified_name",
               "create_queued_resource_request">>,
             <<"setup", "qualified_name", "create_queued_resource_request">>,
             <<"setup", "ssh_keys", "generate_ssh_keys">>,
             <<"run_model", "qualified_name", "create_queued_resource_request">>,
             <<"run_model", "ssh_keys", "generate_ssh_keys">>,
             <<"run_model", "env_GCS_OUTPUT", "generate_gcs_folder_location">> }
            \cup QrCleanUpArgs
            \cup PlainPostProcessArgs("generate_gcs_folder_location")
      E0 == XComEdges(A)
      \* queued_resource_op >> setup
      E1 == Chain(QrCreate, {"setup"}, E0)
  IN [ Pipeline(QrProvision \cup {"run_model", "delete_queued_resource"}
                  \cup PostProcessTasks, A, QrStageChain(E1), mc)
       EXCEPT !.params =
         { <<"setup", "all_workers", SetupAllWorkers(tc, all_workers)>>,
           <<"run_model", "all_workers", all_workers>> } ]

(***************************************************************************)
(* XpkTask                                                                 *)
(***************************************************************************)
XpkLaunchWorkload == {"run_workload", "wait_for_workload_start"}

\* The tasks of the run_model group; a gcs_location the caller supplies is
\* resolved by a task of the caller, outside the group.
XpkRunModelGroup(gcs_supplied) ==
  {"generate_workload_id"} \cup XpkLaunchWorkload
    \cup {"wait_for_workload_completion", "clean_up_workload"}
    \cup (IF gcs_supplied THEN {} ELSE {"generate_gcs_folder_location"})

\* Mutant: a location is generated whether or not the caller supplied one.
XpkGcsPath_Generated(gcs_supplied) == "generate_gcs_folder_location"

\* gcs_path of XpkTask.run_model.
XpkGcsPath(gcs_supplied) ==
  IF gcs_supplied THEN "gcs_location" ELSE "generate_gcs_folder_location"

\* Mutant: the start of the workload is polled under another value.
launch_workload_OtherId(gcs_path) ==
  LET A == { <<"run_workload", "workload_id", "generate_workload_id">>,
             <<"run_workload", "gcs_path", gcs_path>>,
             <<"wait_for_workload_start", "workload_id", gcs_path>> }
  IN Pipeline(XpkLaunchWorkload, A,
              Chain({"run_workload"}, {"wait_for_workload_start"}, XComEdges(A)),
              NoMetric)

\* XpkTask.launch_workload
launch_workload(gcs_path) ==
  LET A == { <<"run_workload", "workload_id", "generate_workload_id">>,
             <<"run_workload", "gcs_path", gcs_path>>,
             <<"wait_for_workload_start", "workload_id", "generate_workload_id">> }
      \* run_workload >> wait_for_workload_start
  IN Pipeline(XpkLaunchWorkload, A,
              Chain({"run_workload"}, {"wait_for_workload_start"}, XComEdges(A)),
              NoMetric)

\* Mutant: the completion wait is not chained after launch_workload.
XpkRunModel_StartUnchained(gcs_supplied, mc) ==
  LET gcs_path == XpkGcsPath(gcs_supplied)
      launch == launch_workload(gcs_path)
      A == launch.args \cup
           { <<"wait_for_workload_completion", "workload_id", "generate_workload_id">>,
             <<"clean_up_workload", "workload_id", "generate_workload_id">> }
      E1 == Chain({"generate_workload_id", gcs_path}, XpkLaunchWorkload,
                  launch.edges \cup XComEdges(A))
      E3 == Chain({"wait_for_workload_completion"}, {"clean_up_workload"}, E1)
  IN Pipeline(XpkRunModelGroup(gcs_supplied) \cup {gcs_path}, A, E3, mc)

\* XpkTask.run_model
XpkRunModel(gcs_supplied, mc) ==
  LET gcs_path == XpkGcsPath(gcs_supplied)
      launch == launch_workload(gcs_path)
      A == launch.args \cup
           { <<"wait_for_workload_completion", "workload_id", "generate_workload_id">>,
             <<"clean_up_workload", "workload_id", "generate_workload_id">> }
      E0 == launch.edges \cup XComEdges(A)
      \* (workload_id, gcs_path) >> launch_workload
      E1 == Chain({"generate_workload_id", gcs_path}, XpkLaunchWorkload, E0)
      \* >> wait_for_workload_completion >> clean_up_workload
      E2 == Chain(XpkLaunchWorkload, {"wait_for_workload_completion"}, E1)
      E3 == Chain({"wait_for_workload_completion"}, {"clean_up_workload"}, E2)
  IN Pipeline(XpkRunModelGroup(gcs_supplied) \cup {gcs_path}, A, E3, mc)

\* Mutant: xplane_to_metrics is created but left out of the chain.
XpkPostProcess_NoProfileChain(result_location, mc) ==
  LET A == PlainPostProcessArgs(result_location)
      E == Chain({"generate_process_id"}, {"process_metrics"}, XComEdges(A))
  IN IF mc.present /\ mc.profile
       THEN Pipeline(PostProcessTasks \cup {"xplane_to_metrics"}, A, E,
                     [mc EXCEPT !.profile_metrics = "xplane_to_metrics"])
       ELSE Pipeline(PostProcessTasks, A, E, mc)

\* Mutant: the profile of the MetricConfig is ignored.
XpkPostProcess_IgnoresProfile(result_location, mc) ==
  LET A == PlainPostProcessArgs(result_location)
  IN Pipeline(PostProcessTasks, A,
              Chain({"generate_process_id"}, {"process_metrics"}, XComEdges(A)), mc)

\* XpkTask.post_process: with a profile, xplane_to_metrics sits between the
\* process id and process_metrics, and its XComArg is stored in the
\* MetricConfig (profile.metrics).
XpkPostProcess(result_location, mc) ==
  LET A0 == PlainPostProcessArgs(result_location)
      A1 == IF mc.profile_file_location = "static" THEN {}
            ELSE { <<"xplane_to_metrics", "file_location", mc.profile_file_location>> }
  IN IF mc.present /\ mc.profile
       THEN LET A == A0 \cup A1
                E0 == XComEdges(A)
                \* process_id >> profile.metrics >> post_process_metrics
                E1 == Chain({"generate_process_id"}, {"xplane_to_metrics"}, E0)
                E2 == Chain({"xplane_to_metrics"}, {"process_metrics"}, E1)
            IN Pipeline(PostProcessTasks \cup {"xplane_to_metrics"}, A, E2,
                        [mc EXCEPT !.profile_metrics = "xplane_to_metrics"])
       ELSE \* process_id >> post_process_metrics
            Pipeline(PostProcessTasks, A0,
                     Chain({"generate_process_id"}, {"process_metrics"}, XComEdges(A0)),
                     mc)

\* "group >> other group", both already composed.
Then(p, pgroup, q) ==
  [ Pipeline(p.tasks \cup q.tasks, p.args \cup q.args,
             Chain(pgroup, q.tasks, p.edges \cup q.edges), q.metric)
    EXCEPT !.params = p.params \cup q.params,
           !.prepended = q.prepended \o p.prepended ]

\* Mutant: the operands of "run_model >> post_process" swapped.
XpkRun_Reversed(gcs_supplied, skip_post_process, mc) ==
  LET rm == XpkRunModel(gcs_supplied, mc)
      pp == XpkPostProcess(XpkGcsPath(gcs_supplied), mc)
  IN IF ~ skip_post_process
       THEN Pipeline(rm.tasks \cup pp.tasks, rm.args \cup pp.args,
                     Chain(pp.tasks, XpkRunModelGroup(gcs_supplied),
                           rm.edges \cup pp.edges), pp.metric)
       ELSE rm

\* Mutant: skip_post_process is ignored.
XpkRun_NeverSkips(gcs_supplied, skip_post_process, mc) ==
  Then(XpkRunModel(gcs_supplied, mc), XpkRunModelGroup(gcs_supplied),
       XpkPostProcess(XpkGcsPath(gcs_supplied), mc))

\* XpkTask.run
XpkRun(gcs_supplied, skip_post_process, mc) ==
  LET rm == XpkRunModel(gcs_supplied, mc)
  IN IF ~ skip_post_process
       THEN Then(rm, XpkRunModelGroup(gcs_supplied),
                 XpkPostProcess(XpkGcsPath(gcs_supplied), mc))
       ELSE rm

\* Mutant: no command is put in front of the run commands.
ExportRunName_None(run_name_env) == << >>

\* [f"export {run_name_env}={run_name}"], run_name being the XComArg of
\* generate_run_name.
ExportRunName(run_name_env) ==
  << "export " \o run_name_env \o "=" \o "generate_run_name" >>

\* Mutant: the name-resolution steps are not chained to run_model.
run_with_run_name_generation_Unchained(mc, run_name_env) ==
  LET mc1 == [mc EXCEPT !.tb_file_location = "generate_tb_file_location"]
      mc2 == IF mc.profile
               THEN [mc1 EXCEPT !.profile_file_location =
                                   "generate_profile_file_location"]
               ELSE mc1
      names == {"generate_tb_file_location"} \cup
               (IF mc.profile THEN {"generate_profile_file_location"} ELSE {})
      A == { <<n, "run_name", "generate_run_name">> : n \in names }
      rm == XpkRunModel(FALSE, mc2)
      pp == XpkPostProcess(XpkGcsPath(FALSE), mc2)
      E1 == Chain({"generate_run_name"}, names, XComEdges(A) \cup rm.edges)
      head == Pipeline({"generate_run_name"} \cup names \cup rm.tasks,
                       A \cup rm.args, E1, mc2)
  IN [ Then(head, XpkRunModelGroup(FALSE), pp)
       EXCEPT !.prepended = ExportRunName(run_name_env) ]

\* XpkTask.run_with_run_name_generation (the MetricConfig is present: the
\* method reads its tensorboard_summary).
run_with_run_name_generation(mc, run_name_env) ==
  LET mc1 == [mc EXCEPT !.tb_file_location = "generate_tb_file_location"]
      mc2 == IF mc.profile
               THEN [mc1 EXCEPT !.profile_file_location =
                                   "generate_profile_file_location"]
               ELSE mc1
      names == {"generate_tb_file_location"} \cup
               (IF mc.profile THEN {"generate_profile_file_location"} ELSE {})
      A == { <<n, "run_name", "generate_run_name">> : n \in names }
      rm == XpkRunModel(FALSE, mc2)
      pp == XpkPostProcess(XpkGcsPath(FALSE), mc2)
      E0 == XComEdges(A) \cup rm.edges
      \* run_name >> (tb_file_location, profile_file_location) >> run_model
      E1 == Chain({"generate_run_name"}, names, E0)
      E2 == Chain(names, XpkRunModelGroup(FALSE), E1)
      head == Pipeline({"generate_run_name"} \cup names \cup rm.tasks,
                       A \cup rm.args, E2, mc2)
      \* >> self.post_process(gcs_path); new_run_model_cmds puts the export
      \* of the run name in front of task_test_config.run_model_cmds
  IN [ Then(head, XpkRunModelGroup(FALSE), pp)
       EXCEPT !.prepended = ExportRunName(run_name_env) ]

(***************************************************************************)
(* GpuCreateResourceTask                                                   *)
(***************************************************************************)
GpuInitialize ==
  {"generate_gpu_name", "generate_ssh_keys", "generate_gcs_folder_location"}
GpuProvision == GpuInitialize \cup {"create_resource", "setup"}

\* Mutant: the setup script is run on the existing instance too.
GpuExistingProvision_WithSetup ==
  {"generate_ssh_keys", "get_existing_resource", "generate_gcs_folder_location",
   "setup"}

GpuExistingProvision ==
  {"generate_ssh_keys", "get_existing_resource", "generate_gcs_folder_location"}

\* The script each ssh_host task is given.
GpuSetupScript == { <<"setup", "cmds", "setup_script">> }
GpuRunModelScript == { <<"run_model", "cmds", "test_script">> }

\* Mutant: the test script is never given GCS_OUTPUT.
GpuEnv_Unset(mc) == {}

\* env_variable of run and run_with_existing_instance.
GpuEnv(mc) ==
  IF mc.present /\ mc.use_runtime_generated_gcs_folder
    THEN { <<"run_model", "env_GCS_OUTPUT", "generate_gcs_folder_location">> }
    ELSE {}

\* GpuCreateResourceTask.provision
GpuProvisionArgs ==
  { <<"create_resource", "gpu_name", "generate_gpu_name">>,
    <<"create_resource", "ssh_keys", "generate_ssh_keys">>,
    <<"setup", "ip_address", "create_resource">>,
    <<"setup", "ssh_keys", "generate_ssh_keys">> }

\* GpuCreateResourceTask.provision_via_existing_instance
GpuExistingProvisionArgs ==
  { <<"get_existing_resource", "ssh_keys", "generate_ssh_keys">> }

\* GpuCreateResourceTask.clean_up, as run calls it: on instance_name, the
\* generated gpu name.
GpuCleanUpArgs == { <<"delete_resource", "resource", "generate_gpu_name">> }

\* Mutant: the instance's address is passed where the key pair belongs.
GpuCleanUpExistingArgs_Address ==
  { <<"clean_up_ssh_keys", "ssh_keys", "get_existing_resource">> }

\* GpuCreateResourceTask.clean_up_existing_instance
GpuCleanUpExistingArgs == { <<"clean_up_ssh_keys", "ssh_keys", "generate_ssh_keys">> }

\* Mutant: the name generation is made to wait for the clean-up.
GpuStageChain_Cycle(E) ==
  LET E1 == Chain(GpuProvision, {"run_model"}, E)
      E2 == Chain({"run_model"}, PostProcessTasks, E1)
  IN Chain(PostProcessTasks, {"delete_resource"}, E2)
       \cup { <<"delete_resource", "generate_gpu_name">> }

\* provision >> run_model >> post_process >> clean_up, in run
GpuStageChain(E) ==
  LET E1 == Chain(GpuProvision, {"run_model"}, E)
      E2 == Chain({"run_model"}, PostProcessTasks, E1)
  IN Chain(PostProcessTasks, {"delete_resource"}, E2)

\* Mutant: the stages chained in the order they were built.
GpuExistingStageChain_BuildOrder(E) ==
  LET E1 == Chain(GpuExistingProvision, PostProcessTasks, E)
      E2 == Chain(PostProcessTasks, {"run_model"}, E1)
  IN Chain({"run_model"}, {"clean_up_ssh_keys"}, E2)

\* provision >> run_model >> post_process >> clean_up, in
\* run_with_existing_instance (which builds post_process before run_model)
GpuExistingStageChain(E) ==
  LET E1 == Chain(GpuExistingProvision, {"run_model"}, E)
      E2 == Chain({"run_model"}, PostProcessTasks, E1)
  IN Chain(PostProcessTasks, {"clean_up_ssh_keys"}, E2)

\* GpuCreateResourceTask.run_with_existing_instance
run_with_existing_instance(mc) ==
  LET A == GpuExistingProvisionArgs \cup GpuEnv(mc) \cup
           { <<"run_model", "resource", "get_existing_resource">>,
             <<"run_model", "ssh_keys", "generate_ssh_keys">> }
           \cup PlainPostProcessArgs("generate_gcs_folder_location")
           \cup GpuCleanUpExistingArgs
  IN [ Pipeline(GpuExistingProvision \cup {"run_model", "clean_up_ssh_keys"}
                  \cup PostProcessTasks, A, GpuExistingStageChain(XComEdges(A)), mc)
       EXCEPT !.params = GpuRunModelScript ]

\* GpuCreateResourceTask.run
GpuRun(existing_instance_name, mc) ==
  IF existing_instance_name # None
    THEN run_with_existing_instance(mc)
    ELSE LET A == GpuProvisionArgs \cup GpuEnv(mc) \cup
                  { <<"run_model", "resource", "create_resource">>,
                    <<"run_model", "ssh_keys", "generate_ssh_keys">> }
                  \cup PlainPostProcessArgs("generate_gcs_folder_location")
                  \cup GpuCleanUpArgs
             \* ip_address >> setup is the XComArg edge of setup itself
         IN [ Pipeline(GpuProvision \cup {"run_model", "delete_resource"}
                         \cup PostProcessTasks, A, GpuStageChain(XComEdges(A)), mc)
              EXCEPT !.params = GpuSetupScript \cup GpuRunModelScript ]

(***************************************************************************)
(* GpuGkeTask                                                              *)
(***************************************************************************)
\* int(x) of a quotient: rounds towards zero.
IntTrunc(n, d) == IF n >= 0 THEN n \div d ELSE - ((- n) \div d)

\* int(self.task_test_config.timeout.total_seconds())
TimeoutSeconds(tc) == IntTrunc(tc.timeout, 1000)

\* Mutant: the deadline without the "or 3600".
get_job_manifest_NoFallback(tc) ==
  [ activeDeadlineSeconds |-> TimeoutSeconds(tc),
    backoffLimit |-> 0,
    completionMode |-> "Indexed",
    completions |-> tc.num_hosts,
    parallelism |-> tc.num_hosts,
    restartPolicy |-> "Never",
    gpu_limit |-> tc.accelerator_count ]

\* GpuGkeTask._get_job_manifest: the fields of the Job that depend on the
\* test config, and the fixed fields of its spec.
get_job_manifest(tc) ==
  [ activeDeadlineSeconds |->
      IF TimeoutSeconds(tc) # 0 THEN TimeoutSeconds(tc) ELSE 3600,
    backoffLimit |-> 0,
    completionMode |-> "Indexed",
    completions |-> tc.num_hosts,
    parallelism |-> tc.num_hosts,
    restartPolicy |-> "Never",
    gpu_limit |-> tc.accelerator_count ]

\* Mutant: the tasks are built but "gcs_location >> gke_run >> post_process"
\* is left out.
GkeRun_NoChain(tc, mc) ==
  LET A == { <<"run_job", "gcs_location", "generate_gcs_folder_location">> }
           \cup PlainPostProcessArgs("generate_gcs_folder_location")
  IN [ Pipeline({"generate_gcs_folder_location", "run_job"} \cup PostProcessTasks,
                A, XComEdges(A), mc)
       EXCEPT !.params = { <<"run_job", "job_body", get_job_manifest(tc)>> } ]

\* GpuGkeTask.run
GkeRun(tc, mc) ==
  LET A == { <<"run_job", "gcs_location", "generate_gcs_folder_location">> }
           \cup PlainPostProcessArgs("generate_gcs_folder_location")
      E0 == XComEdges(A)
      \* gcs_location >> gke_run >> post_process
      E1 == Chain({"generate_gcs_folder_location"}, {"run_job"}, E0)
      E2 == Chain({"run_job"}, PostProcessTasks, E1)
  IN [ Pipeline({"generate_gcs_folder_location", "run_job"} \cup PostProcessTasks,
                A, E2, mc)
       EXCEPT !.params = { <<"run_job", "job_body", get_job_manifest(tc)>> } ]

(***************************************************************************)
(* BaseTask                                                                *)
(***************************************************************************)
TaskClasses == {"XpkTask", "GpuCreateResourceTask", "GpuGkeTask"}

\* self.run() with the defaults of its keyword arguments.
Run(c, mc) ==
  CASE c.class = "XpkTask" -> XpkRun(c.gcs_supplied, c.skip_post_process, mc)
    [] c.class = "GpuCreateResourceTask" -> GpuRun(c.existing_instance_name, mc)
    [] c.class = "GpuGkeTask" -> GkeRun(c.test_config, mc)

\* "with quarantine_task_group:": the groups created inside become children
\* of the quarantine group.
Within(group, p) == [p EXCEPT !.outer = group]

\* Mutant: a quarantined test is composed without its Post-Process stage.
run_with_quarantine_NoPostProcess(c, mc) ==
  IF is_quarantined(c.benchmark_id)
    THEN Within("quarantine", Run([c EXCEPT !.skip_post_process = TRUE], mc))
    ELSE Run(c, mc)

\* BaseTask.run_with_quarantine
run_with_quarantine(c, mc) ==
  IF is_quarantined(c.benchmark_id)
    THEN Within("quarantine", Run(c, mc))
    ELSE Run(c, mc)

\* XpkTask.run_with_name_gen_and_quarantine
run_with_name_gen_and_quarantine(c, mc) ==
  IF is_quarantined(c.benchmark_id)
    THEN Within("quarantine", run_with_run_name_generation(mc, c.run_name_env))
    ELSE run_with_run_name_generation(mc, c.run_name_env)

(***************************************************************************)
(* Composition: the DAG file calls one entry point per pipeline instance.  *)
(***************************************************************************)
InitWith(retries) ==
  /\ dag_retries = retries
  /\ tries = [i \in Insts |-> [t \in AllTasks |-> 0]]
  /\ cfg = [i \in Insts |-> NoCfg]
  /\ tasks = [i \in Insts |-> {}]
  /\ args = [i \in Insts |-> {}]
  /\ edges = [i \in Insts |-> {}]
  /\ outer = [i \in Insts |-> "none"]
  /\ metric = [i \in Insts |-> NoMetric]
  /\ test_config = [i \in Insts |-> DefaultTestConfig]
  /\ params = [i \in Insts |-> {}]
  /\ st = [i \in Insts |-> [t \in AllTasks |-> "none"]]
  /\ xcom = [i \in Insts |-> [t \in AllTasks |-> None]]
  /\ resources = {ExistingInstance.of}
  /\ created = {}
  /\ deleted = {}
  /\ vmKeys = {}
  /\ keyOps = {}
  /\ workloads = {}
  /\ jobs = {}
  /\ raised = [i \in Insts |-> {}]

\* A DAG that sets no retries: Airflow's default is none.
Init == InitWith(0)

Compose(i, c, p) ==
  /\ cfg[i].class = "none"
  /\ cfg' = [cfg EXCEPT ![i] = c]
  /\ tasks' = [tasks EXCEPT ![i] = p.tasks]
  /\ args' = [args EXCEPT ![i] = p.args]
  /\ edges' = [edges EXCEPT ![i] = p.edges]
  /\ outer' = [outer EXCEPT ![i] = p.outer]
  /\ metric' = [metric EXCEPT ![i] = p.metric]
  /\ test_config' = [test_config EXCEPT ![i] =
                       [c.test_config EXCEPT !.run_model_cmds = p.prepended \o @]]
  /\ params' = [params EXCEPT ![i] = p.params]
  /\ UNCHANGED <<st, xcom, raised, tries, dag_retries>>
  /\ UNCHANGED envVars

Cfg(class, entry, b, kind) ==
  [NoCfg EXCEPT !.class = class, !.entry = entry, !.benchmark_id = b,
                !.metric_kind = kind]

\* The MetricConfig the task object was constructed with.
InitialMetric(c) == MetricConfig(c.metric_kind, c.runtime_gcs)

\* Test configs of TPU tests, by test name.
QrTestConfigs ==
  { [DefaultTestConfig EXCEPT !.test_name = n] : n \in {"tf_keras", "pt_nightly", "tf"} }

\* The calls of run_queued_resource_test: a MetricConfig with the default
\* test config and all_workers, or a test config and an all_workers flag
\* without MetricConfig.
QrCalls ==
  { <<kind, DefaultTestConfig, TRUE>> : kind \in MetricKinds }
    \cup { <<"none", tc, aw>> : tc \in QrTestConfigs, aw \in BOOLEAN }

ComposeQueuedResource(i) ==
  \E call \in QrCalls :
    Compose(i, [Cfg("QueuedResource", "run_queued_resource_test", "bench_a", call[1])
                  EXCEPT !.test_config = call[2], !.all_workers = call[3]],
            run_queued_resource_test(call[2], MetricConfig(call[1], FALSE), call[3]))

ComposeXpkRun(i) ==
  \E kind \in MetricKinds, gcs \in BOOLEAN, skip \in BOOLEAN :
    LET c == [Cfg("XpkTask", "run", "bench_a", kind) EXCEPT
                !.gcs_supplied = gcs, !.skip_post_process = skip]
    IN Compose(i, c, XpkRun(gcs, skip, MetricConfig(kind, FALSE)))

\* The calls of run_with_run_name_generation: a MetricConfig with the
\* default run commands and run_name_env, or other run commands and
\* another run_name_env with a MetricConfig without profile.
NameGenCalls ==
  { <<kind, <<"train">>, "M_RUN_NAME">> : kind \in MetricKinds \ {"none"} }
    \cup { <<"plain", << >>, "M_RUN_NAME">>,
           <<"plain", <<"train", "eval">>, "RUN_NAME">>,
           <<"plain", <<"export SEED=1", "train">>, "M_RUN_NAME">> }

ComposeXpkRunNameGen(i) ==
  \E call \in NameGenCalls :
    Compose(i, [Cfg("XpkTask", "run_with_run_name_generation", "bench_a", call[1])
                  EXCEPT !.test_config.run_model_cmds = call[2],
                         !.run_name_env = call[3]],
            run_with_run_name_generation(MetricConfig(call[1], FALSE), call[3]))

ComposeXpkNameGenQuarantine(i) ==
  \E kind \in MetricKinds \ {"none"}, b \in Benchmarks :
    LET c == Cfg("XpkTask", "run_with_name_gen_and_quarantine", b, kind)
    IN Compose(i, c, run_with_name_gen_and_quarantine(c, MetricConfig(kind, FALSE)))

ComposeGpuRun(i) ==
  \E kind \in MetricKinds, rt \in BOOLEAN, ex \in {None, ExistingInstance} :
    /\ kind = "none" => ~ rt
    /\ LET c == [Cfg("GpuCreateResourceTask", "run", "bench_a", kind) EXCEPT
                   !.existing_instance_name = ex, !.runtime_gcs = rt]
       IN Compose(i, c, GpuRun(ex, MetricConfig(kind, rt)))

\* Test configs of GPU batch jobs: hosts, timeout (ms), GPUs per host.
GkeTestConfigs ==
  { TestConfig("gke_nightly", h, t, n) :
      h \in {1, 2, 4},
      t \in {-1500, -400, 0, 400, 1000, 1999, 7200000},
      n \in {1, 8} }

ComposeGkeRun(i) ==
  \E kind \in MetricKinds, tc \in GkeTestConfigs :
    Compose(i, [Cfg("GpuGkeTask", "run", "bench_a", kind) EXCEPT !.test_config = tc],
            GkeRun(tc, MetricConfig(kind, FALSE)))

ComposeRunWithQuarantine(i) ==
  \E class \in TaskClasses, b \in Benchmarks, kind \in {"none", "profile"},
     ex \in {None, ExistingInstance} :
    /\ class # "GpuCreateResourceTask" => ex = None
    /\ LET c == [Cfg(class, "run_with_quarantine", b, kind) EXCEPT
                   !.existing_instance_name = ex]
       IN Compose(i, c, run_with_quarantine(c, MetricConfig(kind, FALSE)))

(***************************************************************************)
(* Execution: the Airflow scheduler runs the tasks of a composed pipeline. *)
(***************************************************************************)
Terminal == {"success", "failed", "upstream_failed"}
Executed == {"running", "success", "failed", "up_for_retry"}

Upstream(i, t) == { u \in tasks[i] : <<u, t>> \in edges[i] }

\* Mutant: post-processing with Airflow's default trigger rule.
TriggerRule_PostProcessDefault(t) ==
  IF t = "clean_up_workload" THEN "all_done" ELSE "all_success"

\* Mutant: the workload deletion with Airflow's default trigger rule.
TriggerRule_CleanUpDefault(t) ==
  IF t = "generate_process_id" THEN "all_done" ELSE "all_success"

\* The trigger rule each task is declared with.  The workload deletion runs
\* whatever the state of the workload, and post-processing is attempted
\* whatever the runner reported; every other task keeps Airflow's default.
TriggerRule(t) ==
  IF t \in {"clean_up_workload", "generate_process_id"}
    THEN "all_done"
    ELSE "all_success"

\* A task instance is scheduled once its trigger rule is met.
Ready(i, t) ==
  /\ t \in tasks[i]
  /\ st[i][t] \in {"none", "up_for_retry"}
  /\ IF TriggerRule(t) = "all_done"
       THEN \A u \in Upstream(i, t) : st[i][u] \in Terminal
       ELSE \A u \in Upstream(i, t) : st[i][u] = "success"

\* The value a task receives for one of its XComArg parameters.
ArgVal(i, t, param) ==
  LET P == { a \in args[i] : a[1] = t /\ a[2] = param }
  IN IF P = {} THEN None ELSE xcom[i][(CHOOSE a \in P : TRUE)[3]]

SetState(i, t, s) == st' = [st EXCEPT ![i][t] = s]
Return(i, t, v) == xcom' = [xcom EXCEPT ![i][t] = v]

TaskStart(i, t) ==
  /\ Ready(i, t)
  /\ SetState(i, t, "running")
  /\ tries' = [tries EXCEPT ![i][t] = @ + 1]
  /\ UNCHANGED <<xcom, raised>>
  /\ UNCHANGED composeVars
  /\ UNCHANGED envVars

\* all_success: a failed or upstream_failed upstream task fails the task
\* without running it.
TaskUpstreamFailed(i, t) ==
  /\ t \in tasks[i]
  /\ st[i][t] = "none"
  /\ TriggerRule(t) = "all_success"
  /\ \E u \in Upstream(i, t) : st[i][u] \in {"failed", "upstream_failed"}
  /\ SetState(i, t, "upstream_failed")
  /\ UNCHANGED <<xcom, raised, tries>>
  /\ UNCHANGED composeVars
  /\ UNCHANGED envVars

\* The state a task whose execution raised is recorded with.
StateOnError(i) == "failed"

\* Mutant: process_metrics is left with the retries of the DAG.
RetriesOverride_NotIngestion ==
  [ generate_process_id |-> 0, xplane_to_metrics |-> 0 ]

\* .override(retries=0) on the tasks of every post_process group.
RetriesOverride ==
  [ generate_process_id |-> 0, process_metrics |-> 0, xplane_to_metrics |-> 0 ]

Retries(t) ==
  IF t \in DOMAIN RetriesOverride THEN RetriesOverride[t] ELSE dag_retries

\* A task that raised is run again while it has retries left.
Fails(i, t) ==
  /\ st[i][t] = "running"
  /\ SetState(i, t, IF tries[i][t] <= Retries(t)
                      THEN "up_for_retry"
                      ELSE StateOnError(i))
  /\ raised' = [raised EXCEPT ![i] = @ \cup {t}]
  /\ UNCHANGED <<xcom, tries>>
  /\ UNCHANGED composeVars

Succeeds(i, t, v) ==
  /\ st[i][t] = "running"
  /\ SetState(i, t, "success")
  /\ Return(i, t, v)
  /\ UNCHANGED <<raised, tries>>
  /\ UNCHANGED composeVars

\* Tasks that make up a fresh name, key pair, id or location: a value of
\* its kind that no other pipeline instance generates.
Generators ==
  [ generate_tpu_name |-> "name", generate_gpu_name |-> "name",
    generate_ssh_keys |-> "ssh_keys", generate_gcs_folder_location |-> "gcs",
    gcs_location |-> "gcs", generate_workload_id |-> "workload_id",
    generate_run_name |-> "run_name" ]

Generate(i, t) ==
  /\ t \in DOMAIN Generators
  /\ Succeeds(i, t, Val(Generators[t], i))
  /\ UNCHANGED envVars

\* name_format.generate_tb_file_location / generate_profile_file_location:
\* the location is derived from the run name.
ResolveLocation(i, t) ==
  /\ t \in {"generate_tb_file_location", "generate_profile_file_location"}
  /\ Succeeds(i, t, Val(t, ArgVal(i, t, "run_name").of))
  /\ UNCHANGED envVars

\* Tasks modelled by their outcome alone.
PlainTasks ==
  { "wait_for_ready_queued_resource", "setup", "run_model",
    "generate_process_id", "xplane_to_metrics", "process_metrics",
    "wait_for_workload_start", "wait_for_workload_completion" }

PlainSuccess(i, t) ==
  /\ t \in PlainTasks
  /\ Succeeds(i, t, Val(t, 0))
  /\ UNCHANGED envVars

\* A task raises (an error, or its timeout) and changes nothing.
TaskFail(i, t) ==
  /\ t \in tasks[i]
  /\ Fails(i, t)
  /\ UNCHANGED envVars

\* tpu.create_queued_resource: the creation request for tpu_name.
CreateQueuedResourceRequest(i) ==
  LET name == ArgVal(i, "create_queued_resource_request", "tpu_name").of
  IN /\ Succeeds(i, "create_queued_resource_request", Val("qualified_name", name))
     /\ resources' = resources \cup {name}
     /\ created' = created \cup {<<i, name>>}
     /\ UNCHANGED <<deleted, vmKeys, keyOps, workloads, jobs>>

\* gpu.create_resource: creates the VM gpu_name and returns its address.
CreateResource(i) ==
  LET name == ArgVal(i, "create_resource", "gpu_name").of
  IN /\ Succeeds(i, "create_resource", Val("ip_address", name))
     /\ resources' = resources \cup {name}
     /\ created' = created \cup {<<i, name>>}
     /\ UNCHANGED <<deleted, vmKeys, keyOps, workloads, jobs>>

\* gpu.create_resource raises after the VM was created (the VM did not
\* become ready within gpu_create_timeout).
CreateResourceTimeout(i) ==
  LET name == ArgVal(i, "create_resource", "gpu_name").of
  IN /\ Fails(i, "create_resource")
     /\ resources' = resources \cup {name}
     /\ created' = created \cup {<<i, name>>}
     /\ UNCHANGED <<deleted, vmKeys, keyOps, workloads, jobs>>

\* tpu.delete_queued_resource / gpu.delete_resource on the name they are given.
DeleteTarget(i, t) ==
  IF t = "delete_queued_resource"
    THEN ArgVal(i, t, "qualified_name").of
    ELSE ArgVal(i, t, "resource").of

Delete(i, t) ==
  /\ t \in {"delete_queued_resource", "delete_resource"}
  /\ Succeeds(i, t, Val(t, 0))
  /\ resources' = resources \ {DeleteTarget(i, t)}
  /\ deleted' = deleted \cup {<<i, DeleteTarget(i, t)>>}
  /\ UNCHANGED <<created, vmKeys, keyOps, workloads, jobs>>

\* gpu.get_existing_resource: installs the key pair on the named instance
\* and returns its address.
GetExistingResource(i) ==
  LET vm == cfg[i].existing_instance_name.of
      key == ArgVal(i, "get_existing_resource", "ssh_keys").of
  IN /\ Succeeds(i, "get_existing_resource", Val("ip_address", vm))
     /\ vmKeys' = vmKeys \cup {<<vm, key>>}
     /\ keyOps' = keyOps \cup {<<i, "add", vm, key>>}
     /\ UNCHANGED <<resources, created, deleted, workloads, jobs>>

\* gpu.clean_up_ssh_keys: removes the key pair from the named instance.
CleanUpSshKeys(i) ==
  LET vm == cfg[i].existing_instance_name.of
      key == ArgVal(i, "clean_up_ssh_keys", "ssh_keys").of
  IN /\ Succeeds(i, "clean_up_ssh_keys", Val("clean_up_ssh_keys", 0))
     /\ vmKeys' = vmKeys \ {<<vm, key>>}
     /\ keyOps' = keyOps \cup {<<i, "remove", vm, key>>}
     /\ UNCHANGED <<resources, created, deleted, workloads, jobs>>

\* xpk.run_workload: submits the workload workload_id.
RunWorkload(i) ==
  /\ Succeeds(i, "run_workload", Val("run_workload", 0))
  /\ workloads' = workloads \cup {ArgVal(i, "run_workload", "workload_id").of}
  /\ UNCHANGED <<resources, created, deleted, vmKeys, keyOps, jobs>>

\* xpk.clean_up_workload: deletes the workload workload_id.
CleanUpWorkload(i) ==
  /\ Succeeds(i, "clean_up_workload", Val("clean_up_workload", 0))
  /\ workloads' = workloads \ {ArgVal(i, "clean_up_workload", "workload_id").of}
  /\ UNCHANGED <<resources, created, deleted, vmKeys, keyOps, jobs>>

\* gke.run_job: creates the batch job of job_body within job_create_timeout
\* and waits for its completion.  A run_job that raises and changes
\* nothing (TaskFail) did not get its job created in time.
RunJob(i) ==
  /\ Succeeds(i, "run_job", Val("run_job", 0))
  /\ jobs' = jobs \cup {i}
  /\ UNCHANGED <<resources, created, deleted, vmKeys, keyOps, workloads>>

\* gke.run_job raises after the job was created: the job, which runs the
\* test commands, failed or passed its deadline.
RunJobFails(i) ==
  /\ Fails(i, "run_job")
  /\ jobs' = jobs \cup {i}
  /\ UNCHANGED <<resources, created, deleted, vmKeys, keyOps, workloads>>

Execute(i) ==
  \/ \E t \in AllTasks : TaskStart(i, t)
  \/ \E t \in AllTasks : TaskUpstreamFailed(i, t)
  \/ \E t \in AllTasks : TaskFail(i, t)
  \/ \E t \in AllTasks : Generate(i, t)
  \/ \E t \in AllTasks : ResolveLocation(i, t)
  \/ \E t \in AllTasks : PlainSuccess(i, t)
  \/ CreateQueuedResourceRequest(i)
  \/ CreateResource(i)
  \/ CreateResourceTimeout(i)
  \/ \E t \in AllTasks : Delete(i, t)
  \/ GetExistingResource(i)
  \/ CleanUpSshKeys(i)
  \/ RunWorkload(i)
  \/ CleanUpWorkload(i)
  \/ RunJob(i)
  \/ RunJobFails(i)

ComposeAny(i) ==
  \/ ComposeQueuedResource(i)
  \/ ComposeXpkRun(i)
  \/ ComposeXpkRunNameGen(i)
  \/ ComposeXpkNameGenQuarantine(i)
  \/ ComposeGpuRun(i)
  \/ ComposeGkeRun(i)
  \/ ComposeRunWithQuarantine(i)

\* One pipeline instance, of any kind.
Next == ComposeAny(1) \/ Execute(1)

Spec == Init /\ [][Next]_vars

\* One pipeline instance in a DAG whose default_args give every task retries.
DagRetries == 1

InitRetry == InitWith(DagRetries)

SpecRetry == InitRetry /\ [][Next]_vars

\* Pipelines that own a TPU or a VM: the DAG file composes one per instance
\* and the scheduler interleaves their tasks.
ComposeVm(i) ==
  \/ Compose(i, Cfg("QueuedResource", "run_queued_resource_test", "bench_a", "none"),
             run_queued_resource_test(DefaultTestConfig, NoMetric, TRUE))
  \/ \E ex \in {None, ExistingInstance} :
       Compose(i, [Cfg("GpuCreateResourceTask", "run", "bench_a", "none") EXCEPT
                     !.existing_instance_name = ex],
               GpuRun(ex, NoMetric))

\* max_active_tasks of the DAG: the number of task instances the scheduler
\* lets run at once.
concurrency == 2

ActiveTasks == { p \in Insts \X AllTasks : st[p[1]][p[2]] = "running" }

ScheduleTask(i, t) ==
  /\ Ready(i, t)
  /\ Cardinality(ActiveTasks) < concurrency
  /\ TaskStart(i, t)

\* The number of task executions that raise is bounded.
MaxRaised == 1

Raised == { p \in Insts \X AllTasks : p[2] \in raised[p[1]] }

MayRaise(i, t) == st[i][t] = "running" /\ Cardinality(Raised) < MaxRaised

\* The DAG file is parsed, and every pipeline composed, before the scheduler
\* runs a task.
Parsed == \A i \in Insts : cfg[i].class # "none"

ExecuteVm(i) ==
  \/ \E t \in AllTasks : ScheduleTask(i, t)
  \/ \E t \in AllTasks : TaskUpstreamFailed(i, t)
  \/ \E t \in AllTasks : MayRaise(i, t) /\ TaskFail(i, t)
  \/ \E t \in AllTasks : Generate(i, t)
  \/ \E t \in AllTasks : PlainSuccess(i, t)
  \/ CreateQueuedResourceRequest(i)
  \/ CreateResource(i)
  \/ MayRaise(i, "create_resource") /\ CreateResourceTimeout(i)
  \/ \E t \in AllTasks : Delete(i, t)
  \/ GetExistingResource(i)
  \/ CleanUpSshKeys(i)

NextMulti ==
  \E i \in Insts :
    \/ (\A j \in 1..(i - 1) : cfg[j].class # "none") /\ ComposeVm(i)
    \/ Parsed /\ ExecuteVm(i)

SpecMulti == Init /\ [][NextMulti]_vars

(***************************************************************************)
(* Stages                                                                  *)
(***************************************************************************)
\* The tasks of each stage, by the task groups the entry points create.
StageTasks(c) ==
  CASE c.class = "QueuedResource" ->
         [ provision |-> QrProvision, run |-> {"run_model"},
           post_process |-> PostProcessTasks,
           clean_up |-> {"delete_queued_resource"} ]
    [] c.class = "GpuCreateResourceTask" /\ c.existing_instance_name = None ->
         [ provision |-> GpuProvision, run |-> {"run_model"},
           post_process |-> PostProcessTasks,
           clean_up |-> {"delete_resource"} ]
    [] c.class = "GpuCreateResourceTask" /\ c.existing_instance_name # None ->
         [ provision |-> GpuExistingProvision, run |-> {"run_model"},
           post_process |-> PostProcessTasks,
           clean_up |-> {"clean_up_ssh_keys"} ]
    [] c.class = "XpkTask" ->
         [ provision |-> XpkLaunchWorkload,
           run |-> {"wait_for_workload_completion"},
           post_process |-> PostProcessTasks \cup {"xplane_to_metrics"},
           clean_up |-> {"clean_up_workload"} ]
    [] c.class = "GpuGkeTask" ->
         [ provision |-> {}, run |-> {"run_job"},
           post_process |-> PostProcessTasks, clean_up |-> {} ]
    [] OTHER ->
         [ provision |-> {}, run |-> {}, post_process |-> {}, clean_up |-> {} ]

Stage(i, s) == StageTasks(cfg[i])[s] \cap tasks[i]

Started(i, S) == \E t \in S : st[i][t] \in Executed
Ended(i, S) == \A t \in S : st[i][t] \in Terminal
Succeeded(i, S) == \A t \in S : st[i][t] = "success"
\* Every task of S has ended, or waits on a failed task and will never run.
Over(i, S) ==
  \A t \in S :
    \/ st[i][t] \in Terminal
    \/ /\ st[i][t] = "none"
       /\ TriggerRule(t) = "all_success"
       /\ \E u \in Upstream(i, t) : st[i][u] \in {"failed", "upstream_failed"}
Composed(i) == cfg[i].class # "none"
Quiescent(i) == Composed(i) /\ Ended(i, tasks[i])

IsVmPipeline(i) == cfg[i].class \in {"QueuedResource", "GpuCreateResourceTask"}
IsExistingVm(i) ==
  cfg[i].class = "GpuCreateResourceTask" /\ cfg[i].existing_instance_name # None
HasPostProcess(i) == Composed(i) /\ ~ cfg[i].skip_post_process

(***************************************************************************)
(* C1: in the QueuedResource pipeline and both VmSsh pipelines no stage    *)
(* starts before the stage preceding it in the order Provision, Run,       *)
(* Post-Process, Cleanup is over: Run starts only when every task of       *)
(* Provision has succeeded, Post-Process only when Run has ended, and      *)
(* Cleanup only when Run has ended and Post-Process has succeeded.         *)
(***************************************************************************)
C1_StageOrder ==
  \A i \in Insts :
    IsVmPipeline(i) =>
      /\ Started(i, Stage(i, "run")) => Succeeded(i, Stage(i, "provision"))
      /\ Started(i, Stage(i, "post_process")) => Ended(i, Stage(i, "run"))
      /\ Started(i, Stage(i, "clean_up")) =>
           /\ Ended(i, Stage(i, "run"))
           /\ Succeeded(i, Stage(i, "post_process"))

\* An existing-instance pipeline (post_process built before run_model) that
\* ran all four stages.
C1_Witness ==
  \E i \in Insts :
    /\ IsExistingVm(i)
    /\ Succeeded(i, Stage(i, "run"))
    /\ st[i]["clean_up_ssh_keys"] = "success"

RunStage(i) ==
  Stage(i, "run") \cup
    (IF cfg[i].class = "XpkTask" THEN {"run_workload"} \cap tasks[i] ELSE {})

C4_Original ==
  \A i \in Insts :
    IsVmPipeline(i) /\ Started(i, Stage(i, "clean_up")) =>
      /\ Succeeded(i, Stage(i, "provision"))
      /\ Succeeded(i, Stage(i, "run"))
      /\ Succeeded(i, Stage(i, "post_process"))

(***************************************************************************)
(* C4 (amended): in the QueuedResource and VmSsh pipelines Cleanup         *)
(* executes only when Post-Process succeeded and the task that yields what *)
(* Cleanup is called on succeeded; when the pipeline is over and           *)
(* Post-Process did not succeed, Cleanup was not executed and every        *)
(* resource the pipeline created still exists, never deleted.              *)
(***************************************************************************)
CleanUpArgProducers(i) ==
  { a[3] : a \in { b \in args[i] : b[1] \in Stage(i, "clean_up") } }

C4_CleanUpGate ==
  \A i \in Insts :
    IsVmPipeline(i) =>
      /\ Started(i, Stage(i, "clean_up")) =>
           /\ Succeeded(i, Stage(i, "post_process"))
           /\ Succeeded(i, CleanUpArgProducers(i))
      /\ Quiescent(i) /\ ~ Succeeded(i, Stage(i, "post_process")) =>
           /\ ~ Started(i, Stage(i, "clean_up"))
           /\ \A c \in created :
                c[1] = i => c[2] \in resources /\ c \notin deleted

\* A QueuedResource pipeline that created its resource, is over, and whose
\* metric ingestion failed.
C4_Witness ==
  \E i \in Insts :
    /\ cfg[i].class = "QueuedResource"
    /\ Quiescent(i)
    /\ \E c \in created : c[1] = i
    /\ st[i]["process_metrics"] = "failed"

(***************************************************************************)
(* C5: in the ClusterWorkload pipeline, once the workload was submitted,   *)
(* clean_up_workload has been executed on that workload by the time the    *)
(* pipeline is over, also when waiting for its start or its completion     *)
(* failed; when the deletion succeeded the workload is gone.               *)
(***************************************************************************)
C5_WorkloadCleanedUp ==
  \A i \in Insts :
    cfg[i].class = "XpkTask" /\ Quiescent(i) /\ st[i]["run_workload"] = "success" =>
      /\ st[i]["clean_up_workload"] \in Executed
      /\ st[i]["clean_up_workload"] = "success" =>
           xcom[i]["generate_workload_id"].of \notin workloads

\* The wait for the workload's completion failed and the workload was
\* deleted all the same.
C5_Witness ==
  \E i \in Insts :
    /\ cfg[i].class = "XpkTask"
    /\ st[i]["run_workload"] = "success"
    /\ st[i]["wait_for_workload_completion"] = "failed"
    /\ st[i]["clean_up_workload"] = "success"

(***************************************************************************)
(* C6: the pipeline run_with_quarantine (run_with_name_gen_and_quarantine) *)
(* composes is the one run (run_with_run_name_generation) composes, with   *)
(* the same tasks, arguments and dependencies, whether or not the          *)
(* benchmark_id is quarantined; only the enclosing task group differs, and *)
(* a task that raised is recorded as failed in a quarantined pipeline too. *)
(***************************************************************************)
QuarantineEntries == {"run_with_quarantine", "run_with_name_gen_and_quarantine"}

Unquarantined(c) ==
  IF c.entry = "run_with_quarantine"
    THEN Run(c, InitialMetric(c))
    ELSE run_with_run_name_generation(InitialMetric(c), c.run_name_env)

C6_QuarantineKeepsPipeline ==
  \A i \in Insts :
    cfg[i].entry \in QuarantineEntries =>
      /\ tasks[i] = Unquarantined(cfg[i]).tasks
      /\ args[i] = Unquarantined(cfg[i]).args
      /\ edges[i] = Unquarantined(cfg[i]).edges
      /\ metric[i] = Unquarantined(cfg[i]).metric
      /\ outer[i] = IF is_quarantined(cfg[i].benchmark_id) THEN "quarantine" ELSE "dag"
      /\ \A t \in raised[i] : st[i][t] = "failed"

\* A quarantined ClusterWorkload pipeline in which metric ingestion raised.
C6_Witness ==
  \E i \in Insts :
    /\ cfg[i].entry \in QuarantineEntries
    /\ cfg[i].class = "XpkTask"
    /\ outer[i] = "quarantine"
    /\ "process_metrics" \in raised[i]

(***************************************************************************)
(* C7: in XpkTask.post_process, with a profile in the MetricConfig the     *)
(* order is process id, xplane_to_metrics, process_metrics, and            *)
(* process_metrics never starts before xplane_to_metrics has succeeded;    *)
(* without a MetricConfig or without a profile there is no conversion      *)
(* step, and within Post-Process process_metrics waits on the process id   *)
(* alone.                                                                  *)
(***************************************************************************)
C7_ProfileBeforeIngestion ==
  \A i \in Insts :
    cfg[i].class = "XpkTask" /\ HasPostProcess(i) =>
      IF cfg[i].metric_kind = "profile"
        THEN /\ "xplane_to_metrics" \in tasks[i]
             /\ Started(i, {"xplane_to_metrics"}) =>
                  Succeeded(i, {"generate_process_id"})
             /\ Started(i, {"process_metrics"}) =>
                  Succeeded(i, {"generate_process_id", "xplane_to_metrics"})
        ELSE /\ "xplane_to_metrics" \notin tasks[i]
             /\ Upstream(i, "process_metrics") \cap Stage(i, "post_process")
                  = {"generate_process_id"}
             /\ Started(i, {"process_metrics"}) =>
                  Succeeded(i, {"generate_process_id"})

\* Metric ingestion has run after the conversion of the profile.
C7_Witness ==
  \E i \in Insts :
    /\ cfg[i].class = "XpkTask"
    /\ cfg[i].metric_kind = "profile"
    /\ st[i]["xplane_to_metrics"] = "success"
    /\ st[i]["process_metrics"] = "success"

C9_ExistingInstanceUntouched ==
  \A i \in Insts :
    IsExistingVm(i) =>
      LET vm == cfg[i].existing_instance_name.of
          key == xcom[i]["generate_ssh_keys"]
      IN /\ tasks[i] \cap {"generate_gpu_name", "create_resource", "delete_resource"} = {}
         /\ \A c \in created \cup deleted : c[1] # i
         /\ vm \in resources
         /\ "generate_ssh_keys" \in Stage(i, "provision")
         /\ \A k \in keyOps :
              k[1] = i => k[3] = vm /\ key.kind = "ssh_keys" /\ k[4] = key.of
         /\ st[i]["get_existing_resource"] = "success" =>
              <<i, "add", vm, key.of>> \in keyOps
         /\ st[i]["clean_up_ssh_keys"] = "success" =>
              /\ <<i, "remove", vm, key.of>> \in keyOps
              /\ <<vm, key.of>> \notin vmKeys

\* The Cleanup of an existing-instance pipeline has removed its key pair.
C9_Witness ==
  \E i \in Insts : IsExistingVm(i) /\ st[i]["clean_up_ssh_keys"] = "success"

(***************************************************************************)
(* C10 (as claimed): in the QueuedResource pipeline and the VmSsh          *)
(* create-new pipeline, every resource Cleanup deletes was created before  *)
(* by the same pipeline instance, under the name its own initialize step   *)
(* generated, and is no resource of another instance.                      *)
(***************************************************************************)
OwnsResource(i) == IsVmPipeline(i) /\ ~ IsExistingVm(i)

GeneratedName(i) ==
  IF cfg[i].class = "QueuedResource"
    THEN xcom[i]["generate_tpu_name"]
    ELSE xcom[i]["generate_gpu_name"]

C10_Original ==
  \A d \in deleted :
    OwnsResource(d[1]) =>
      /\ GeneratedName(d[1]).kind = "name" /\ d[2] = GeneratedName(d[1]).of
      /\ d \in created
      /\ \A j \in Insts \ {d[1]} : <<j, d[2]>> \notin created

(***************************************************************************)
(* C10 (amended): Cleanup deletes exactly the name this instance's own     *)
(* initialize step generated, never the resource of another instance.  In  *)
(* the QueuedResource pipeline that resource was created before by the     *)
(* same instance.  In the VmSsh create-new pipeline the deletion starts    *)
(* only after the creation step is over, but the creation step may have    *)
(* failed without creating anything, so the deleted name need not exist.   *)
(***************************************************************************)
C10_DeletesOwnName ==
  /\ \A d \in deleted :
       OwnsResource(d[1]) =>
         /\ GeneratedName(d[1]).kind = "name" /\ d[2] = GeneratedName(d[1]).of
         /\ \A j \in Insts \ {d[1]} :
              /\ <<j, d[2]>> \notin created
              /\ d[2] # cfg[j].existing_instance_name.of
         /\ cfg[d[1]].class = "QueuedResource" => d \in created
  /\ \A i \in Insts :
       OwnsResource(i) /\ Started(i, Stage(i, "clean_up")) =>
         /\ Over(i, Stage(i, "provision"))
         /\ cfg[i].class = "QueuedResource" => <<i, GeneratedName(i).of>> \in created

\* Two instances have each created a resource, and one has deleted its own
\* while the other's still exists.
C10_Witness ==
  \E i, j \in Insts :
    /\ i # j
    /\ OwnsResource(i) /\ OwnsResource(j)
    /\ <<i, GeneratedName(i).of>> \in created \cap deleted
    /\ <<j, GeneratedName(j).of>> \in created
    /\ GeneratedName(j).of \in resources

(***************************************************************************)
(* C11 (as claimed): in the QueuedResource and both VmSsh pipelines the    *)
(* test script always runs with GCS_OUTPUT set, to the location the        *)
(* Post-Process stage of the same instance receives.                       *)
(***************************************************************************)
EnvGcsOutput(i) == ArgVal(i, "run_model", "env_GCS_OUTPUT")

FolderLocation(i) == ArgVal(i, "process_metrics", "folder_location")

SetsGcsOutput(i) ==
  \/ cfg[i].class = "QueuedResource"
  \/ metric[i].present /\ metric[i].use_runtime_generated_gcs_folder

JobBody(i) ==
  (CHOOSE p \in params[i] : p[1] = "run_job" /\ p[2] = "job_body")[3]

\* d is the timeout t (in milliseconds) in whole seconds.
WholeSeconds(t, d) ==
  IF t >= 0
    THEN d * 1000 <= t /\ t < (d + 1) * 1000
    ELSE d * 1000 >= t /\ t > (d - 1) * 1000

C12_JobManifest ==
  \A i \in Insts :
    cfg[i].class = "GpuGkeTask" =>
      LET tc == cfg[i].test_config
          m == JobBody(i)
      IN /\ m.completions = tc.num_hosts
         /\ m.parallelism = tc.num_hosts
         /\ m.completionMode = "Indexed"
         /\ m.backoffLimit = 0
         /\ m.gpu_limit = tc.accelerator_count
         /\ IF WholeSeconds(tc.timeout, 0)
              THEN m.activeDeadlineSeconds = 3600
              ELSE WholeSeconds(tc.timeout, m.activeDeadlineSeconds)
         /\ tc.num_hosts = 4 /\ tc.timeout = 0 /\ tc.accelerator_count = 8 =>
              /\ m.completions = 4 /\ m.parallelism = 4
              /\ m.activeDeadlineSeconds = 3600 /\ m.gpu_limit = 8

\* The job of the example (4 hosts, timeout 0, 8 GPUs) was submitted.
C12_Witness ==
  \E i \in Insts :
    /\ cfg[i].class = "GpuGkeTask"
    /\ cfg[i].test_config.num_hosts = 4
    /\ cfg[i].test_config.timeout = 0
    /\ cfg[i].test_config.accelerator_count = 8
    /\ JobBody(i).activeDeadlineSeconds = 3600
    /\ st[i]["run_job"] = "success"

(***************************************************************************)
(* C13: the BatchJob pipeline (GpuGkeTask.run) is the generation of the    *)
(* artifact location, then the job submission (provision and run in one),  *)
(* then Post-Process, in that order; it has no cleanup stage and no        *)
(* execution of it deletes a resource.                                     *)
(***************************************************************************)
C13_BatchJobOrder ==
  \A i \in Insts :
    cfg[i].class = "GpuGkeTask" =>
      /\ tasks[i] = {"generate_gcs_folder_location", "run_job"} \cup PostProcessTasks
      /\ Stage(i, "clean_up") = {}
      /\ tasks[i] \cap {"delete_queued_resource", "delete_resource",
                        "clean_up_ssh_keys", "clean_up_workload"} = {}
      /\ Started(i, {"run_job"}) => Succeeded(i, {"generate_gcs_folder_location"})
      /\ Started(i, Stage(i, "post_process")) =>
           /\ Ended(i, {"generate_gcs_folder_location"})
           /\ Ended(i, {"run_job"})
      /\ \A d \in deleted : d[1] # i
      /\ resources = {ExistingInstance.of}

\* A BatchJob pipeline that ran to the end of Post-Process.
C13_Witness ==
  \E i \in Insts :
    /\ cfg[i].class = "GpuGkeTask"
    /\ st[i]["run_job"] = "success"
    /\ st[i]["process_metrics"] = "success"
    /\ Quiescent(i)

(***************************************************************************)
(* C14 (as claimed): when a bounded wait exceeds its bound (readiness of   *)
(* the queued resource, creation of the VM, start or completion of the     *)
(* workload, the run script), its stage ends in failure and neither a      *)
(* later Run stage nor the Post-Process stage of the instance is executed. *)
(***************************************************************************)
BoundedWaits ==
  { "wait_for_ready_queued_resource", "create_resource",
    "wait_for_workload_start", "wait_for_workload_completion", "run_model" }

TimedOut(i) == raised[i] \cap BoundedWaits

PostProcessSteps == {"generate_process_id", "xplane_to_metrics", "process_metrics"}

C15_PostProcessOnce ==
  \A i \in Insts :
    \A t \in PostProcessSteps \cap tasks[i] :
      /\ tries[i][t] <= 1
      /\ st[i][t] # "up_for_retry"
      /\ t \in raised[i] => st[i][t] = "failed"

\* The test script was run again after it raised, and the metric ingestion
\* that followed failed at its first and only run.
C15_Witness ==
  \E i \in Insts :
    /\ tries[i]["run_model"] = 2
    /\ st[i]["process_metrics"] = "failed"
    /\ tries[i]["process_metrics"] = 1
    /\ Quiescent(i)

(***************************************************************************)
(* C16 (as claimed): in the QueuedResource pipeline the setup script and   *)
(* the run script of a test whose name begins with "tf_" run on all        *)
(* workers whatever all_workers is, and those of any other test run on all *)
(* workers exactly when all_workers is true.                               *)
(***************************************************************************)
OnAllWorkers(i, t) ==
  (CHOOSE p \in params[i] : p[1] = t /\ p[2] = "all_workers")[3]

IsTfTest(i) == cfg[i].test_config.test_name = "tf_keras"

C16_Original ==
  \A i \in Insts :
    cfg[i].class = "QueuedResource" =>
      \A t \in {"setup", "run_model"} :
        OnAllWorkers(i, t) = (IsTfTest(i) \/ cfg[i].all_workers)

(***************************************************************************)
(* C16 (amended): in the QueuedResource pipeline the setup script of a     *)
(* test whose name begins with "tf_" runs on all workers whatever          *)
(* all_workers is, and the setup script of any other test runs on all      *)
(* workers exactly when all_workers is true; the run script of every test, *)
(* "tf_" or not, runs on all workers exactly when all_workers is true and  *)
(* on worker 0 only otherwise.                                             *)
(***************************************************************************)
C16_AllWorkers ==
  \A i \in Insts :
    cfg[i].class = "QueuedResource" =>
      /\ OnAllWorkers(i, "setup") = (IsTfTest(i) \/ cfg[i].all_workers)
      /\ OnAllWorkers(i, "run_model") = cfg[i].all_workers

\* A "tf_" test called with all_workers false has run its setup script and
\* its run script.
C16_Witness ==
  \E i \in Insts :
    /\ cfg[i].class = "QueuedResource"
    /\ IsTfTest(i)
    /\ ~ cfg[i].all_workers
    /\ OnAllWorkers(i, "setup")
    /\ st[i]["setup"] = "success"
    /\ st[i]["run_model"] = "success"

(***************************************************************************)
(* C17: the test config (task_test_config) is immutable after              *)
(* construction: once a pipeline is composed, by whichever entry point,    *)
(* every field of it is as it was constructed.                             *)
(***************************************************************************)
C17_TestConfigImmutable ==
  \A i \in Insts :
    Composed(i) => test_config[i] = cfg[i].test_config

(***************************************************************************)
(* C18: in an XpkTask pipeline the MetricConfig is written only by         *)
(* run-name generation: the tensorboard file location and (with a profile) *)
(* the profile file location are each written once, before any stage that  *)
(* reads them executes, and no other stage, Post-Process in particular,    *)
(* writes any field of the MetricConfig.                                   *)
(***************************************************************************)
NameGenEntries == {"run_with_run_name_generation", "run_with_name_gen_and_quarantine"}

\* The MetricConfig m0 after the two writes of run-name generation.
RunNameWrites(m0) ==
  [m0 EXCEPT !.tb_file_location = "generate_tb_file_location",
             !.profile_file_location =
                IF m0.profile THEN "generate_profile_file_location" ELSE @]

C18_SingleWriter ==
  \A i \in Insts :
    (Composed(i) /\ cfg[i].class = "XpkTask") =>
      metric[i] = IF cfg[i].entry \in NameGenEntries
                    THEN RunNameWrites(InitialMetric(cfg[i]))
                    ELSE InitialMetric(cfg[i])

(***************************************************************************)
(* C19: in a pipeline of XpkTask.run_with_run_name_generation with a       *)
(* profile, generate_run_name has succeeded before either of               *)
(* generate_tb_file_location and generate_profile_file_location starts,    *)
(* the two may run at the same time, and no task that launches or watches  *)
(* the workload starts before both have succeeded; without a profile the   *)
(* same holds with generate_tb_file_location alone.                        *)
(***************************************************************************)
NameResolution(i) ==
  {"generate_tb_file_location", "generate_profile_file_location"} \cap tasks[i]

\* The Run stage of the pipeline: the run_model group without the deletion
\* of the workload, which is tear-down.
NameGenRunTasks == XpkRunModelGroup(FALSE) \ {"clean_up_workload"}

C19_NameResolutionOrder ==
  \A i \in Insts :
    cfg[i].entry \in NameGenEntries =>
      /\ NameResolution(i) =
           IF metric[i].profile
             THEN {"generate_tb_file_location", "generate_profile_file_location"}
             ELSE {"generate_tb_file_location"}
      /\ Started(i, NameResolution(i)) => st[i]["generate_run_name"] = "success"
      /\ Started(i, NameGenRunTasks) =>
           /\ st[i]["generate_run_name"] = "success"
           /\ Succeeded(i, NameResolution(i))

\* Both name-resolution steps are running at once, the workload not yet
\* launched.
C19_Witness ==
  \E i \in Insts :
    /\ cfg[i].entry \in NameGenEntries
    /\ st[i]["generate_tb_file_location"] = "running"
    /\ st[i]["generate_profile_file_location"] = "running"
    /\ ~ Started(i, NameGenRunTasks)

(***************************************************************************)
(* C20 (as claimed): for every backend, a failure of provisioning (a       *)
(* timeout, a failed readiness check) is recorded as a failure of the      *)
(* Provision stage, and the Run stage is not recorded as having executed.  *)
(***************************************************************************)
\* The batch job of a GpuGkeTask was not created: run_job raised before
\* any job ran the test commands.
JobNotCreated(i) ==
  /\ cfg[i].class = "GpuGkeTask"
  /\ "run_job" \in raised[i]
  /\ i \notin jobs

\* The tasks in which provisioning failed.
ProvisionFailures(i) ==
  (raised[i] \cap Stage(i, "provision"))
    \cup (IF JobNotCreated(i) THEN {"run_job"} ELSE {})

C20_Original ==
  \A i \in Insts :
    \A t \in ProvisionFailures(i) :
      /\ st[i][t] = "failed"
      /\ t \in Stage(i, "provision")
      /\ ~ Started(i, Stage(i, "run"))

(***************************************************************************)
(* C20 (amended): for the backends with a Provision stage of its own       *)
(* (QueuedResource, VmSsh, ClusterWorkload), a task of the Provision stage *)
(* that raised is the task recorded as failed and the Run stage is not     *)
(* executed, while a Run stage that failed was started after every task of *)
(* the Provision stage it waits on had succeeded.  For BatchJob the        *)
(* creation of the job and the run of the test are the one task run_job:   *)
(* a job that could not be created is recorded as a failure of run_job,    *)
(* the Run stage, like a failure of the test.                              *)
(***************************************************************************)
C20_ProvisionFailure ==
  \A i \in Insts :
    /\ \A t \in raised[i] : st[i][t] = "failed"
    /\ \A t \in raised[i] \cap Stage(i, "provision") :
         ~ Started(i, Stage(i, "run"))
    /\ \A t \in raised[i] \cap Stage(i, "run") :
         \A u \in Stage(i, "provision") : st[i][u] = "success"
    /\ cfg[i].class = "GpuGkeTask" =>
         /\ Stage(i, "provision") = {}
         /\ Stage(i, "run") = {"run_job"}
         /\ i \in jobs => st[i]["run_job"] \in {"success", "failed"}

\* The workload did not start within workload_provision_timeout: the wait
\* for its completion was not run.
C20_Witness ==
  \E i \in Insts :
    /\ cfg[i].class = "XpkTask"
    /\ "wait_for_workload_start" \in raised[i]
    /\ st[i]["wait_for_workload_start"] = "failed"
    /\ st[i]["wait_for_workload_completion"] = "upstream_failed"

(***************************************************************************)
(* C21: the identifiers generated at the start of a pipeline instance are  *)
(* used unchanged by every later step.  The workload id run_workload       *)
(* submits is the id wait_for_workload_start and                           *)
(* wait_for_workload_completion poll and clean_up_workload deletes; the    *)
(* SSH key pair a QueuedResource or VmSsh resource is created (or looked   *)
(* up) with is the key pair of the setup step and of the Run stage.        *)
(***************************************************************************)
WorkloadIdUsers ==
  { "run_workload", "wait_for_workload_start", "wait_for_workload_completion",
    "clean_up_workload" }

\* The task that creates the VM resource, or looks the existing one up.
ResourceCreator(i) ==
  CASE cfg[i].class = "QueuedResource" -> "create_queued_resource_request"
    [] IsExistingVm(i) -> "get_existing_resource"
    [] OTHER -> "create_resource"

SshKeyUsers(i) == {ResourceCreator(i), "setup", "run_model"} \cap tasks[i]

C21_SameIdentifiers ==
  \A i \in Insts :
    /\ (cfg[i].class = "XpkTask" /\ st[i]["run_workload"] \in Executed) =>
         /\ ArgVal(i, "run_workload", "workload_id") = Val("workload_id", i)
         /\ \A t \in WorkloadIdUsers :
              st[i][t] \in Executed =>
                ArgVal(i, t, "workload_id") = ArgVal(i, "run_workload", "workload_id")
    /\ (IsVmPipeline(i) /\ st[i][ResourceCreator(i)] \in Executed) =>
         /\ ArgVal(i, ResourceCreator(i), "ssh_keys") = Val("ssh_keys", i)
         /\ \A t \in SshKeyUsers(i) :
              st[i][t] \in Executed =>
                ArgVal(i, t, "ssh_keys") = ArgVal(i, ResourceCreator(i), "ssh_keys")

\* A cluster workload that was submitted, polled and deleted.
C21_Witness ==
  \E i \in Insts :
    /\ cfg[i].class = "XpkTask"
    /\ \A t \in WorkloadIdUsers : st[i][t] = "success"

(***************************************************************************)
(* C22: in a ClusterWorkload or BatchJob pipeline the artifact location is *)
(* resolved once, by one task that has succeeded before the workload or    *)
(* job is submitted, and the submission and Post-Process are given the     *)
(* same value; XpkTask.run uses the gcs_location of the caller when there  *)
(* is one and generates no location then, and generates one otherwise.     *)
(***************************************************************************)
LocationTasks == {"gcs_location", "generate_gcs_folder_location"}

\* The task submitting the workload or job, and its location parameter.
Submission(i) ==
  IF cfg[i].class = "XpkTask"
    THEN <<"run_workload", "gcs_path">>
    ELSE <<"run_job", "gcs_location">>

C22_LocationResolvedOnce ==
  \A i \in Insts :
    cfg[i].class \in {"XpkTask", "GpuGkeTask"} =>
      LET loc == IF cfg[i].gcs_supplied
                   THEN "gcs_location" ELSE "generate_gcs_folder_location"
          sub == Submission(i)
      IN /\ tasks[i] \cap LocationTasks = {loc}
         /\ tries[i][loc] <= 1
         /\ st[i][sub[1]] \in Executed =>
              /\ st[i][loc] = "success"
              /\ ArgVal(i, sub[1], sub[2]) = Val("gcs", i)
              /\ ArgVal(i, sub[1], sub[2]) = xcom[i][loc]
         /\ st[i]["process_metrics"] \in Executed =>
              /\ st[i][loc] = "success"
              /\ ArgVal(i, "process_metrics", "folder_location") = xcom[i][loc]
         /\ cfg[i].skip_post_process => "process_metrics" \notin tasks[i]

\* A cluster workload run on the location of the caller, its metrics
\* processed from there.
C22_Witness ==
  \E i \in Insts :
    /\ cfg[i].class = "XpkTask"
    /\ cfg[i].gcs_supplied
    /\ st[i]["run_workload"] = "success"
    /\ st[i]["process_metrics"] = "success"

(***************************************************************************)
(* C23 (as claimed): in the Provision stage of QueuedResource the name,    *)
(* the SSH keys and the artifact location are generated, then the queued   *)
(* resource is created, then the setup script runs; for a new VmSsh        *)
(* resource the name and the SSH keys are generated, then the VM is        *)
(* created, then the setup script runs.  The Run stage never starts before *)
(* setup has finished.                                                     *)
(***************************************************************************)
IsNewVm(i) == cfg[i].class = "GpuCreateResourceTask" /\ ~ IsExistingVm(i)
IsQr(i) == cfg[i].class = "QueuedResource"

\* Task t is not executed before every task of S has succeeded.
After(i, t, S) == st[i][t] \in Executed => Succeeded(i, S)

C23_Original ==
  \A i \in Insts :
    /\ IsQr(i) =>
         /\ \A t \in QrCreate : After(i, t, QrInitialize)
         /\ After(i, "setup", QrCreate)
         /\ After(i, "run_model", {"setup"})
    /\ IsNewVm(i) =>
         /\ After(i, "create_resource", {"generate_gpu_name", "generate_ssh_keys"})
         /\ After(i, "setup", {"create_resource"})
         /\ After(i, "run_model", {"setup"})

(***************************************************************************)
(* C23 (amended): in the Provision stage of QueuedResource the name and    *)
(* the SSH keys are generated, then the queued resource is created, then   *)
(* the setup script runs; the artifact location is generated in the same   *)
(* stage in no order with the creation and the setup.  For a new VmSsh     *)
(* resource the name and the SSH keys are generated, then the VM is        *)
(* created, then the setup script runs.  The Run stage starts only when    *)
(* the whole Provision stage, setup and artifact location included, has    *)
(* succeeded.                                                              *)
(***************************************************************************)
C23_ProvisionOrder ==
  \A i \in Insts :
    /\ IsQr(i) =>
         /\ \A t \in QrCreate :
              After(i, t, {"generate_tpu_name", "generate_ssh_keys"})
         /\ After(i, "wait_for_ready_queued_resource",
                  {"create_queued_resource_request"})
         /\ After(i, "setup", QrCreate)
         /\ After(i, "run_model", QrProvision)
    /\ IsNewVm(i) =>
         /\ After(i, "create_resource", {"generate_gpu_name", "generate_ssh_keys"})
         /\ After(i, "setup", {"create_resource"})
         /\ After(i, "run_model", GpuProvision)

\* The setup script of a queued resource runs while the artifact location
\* is not generated yet.
C23_Witness ==
  \E i \in Insts :
    /\ IsQr(i)
    /\ st[i]["setup"] = "running"
    /\ st[i]["generate_gcs_folder_location"] = "none"

(***************************************************************************)
(* The legacy DAG (dags/multipod/legacy.py): XpkTask pipelines composed by *)
(* run() with no dependency between them, in a DAG with concurrency=2.     *)
(***************************************************************************)
\* Number of pipelines of the legacy DAG that are modelled.
MaxLegacy == 3

LegacyInsts == 1..MaxLegacy

InitLegacy ==
  /\ dag_retries = 0
  /\ tries = [i \in LegacyInsts |-> [t \in AllTasks |-> 0]]
  /\ cfg = [i \in LegacyInsts |-> NoCfg]
  /\ tasks = [i \in LegacyInsts |-> {}]
  /\ args = [i \in LegacyInsts |-> {}]
  /\ edges = [i \in LegacyInsts |-> {}]
  /\ outer = [i \in LegacyInsts |-> "none"]
  /\ metric = [i \in LegacyInsts |-> NoMetric]
  /\ test_config = [i \in LegacyInsts |-> DefaultTestConfig]
  /\ params = [i \in LegacyInsts |-> {}]
  /\ st = [i \in LegacyInsts |-> [t \in AllTasks |-> "none"]]
  /\ xcom = [i \in LegacyInsts |-> [t \in AllTasks |-> None]]
  /\ resources = {ExistingInstance.of}
  /\ created = {}
  /\ deleted = {}
  /\ vmKeys = {}
  /\ keyOps = {}
  /\ workloads = {}
  /\ jobs = {}
  /\ raised = [i \in LegacyInsts |-> {}]

\* get_legacy_unit_test_config(...).run() / get_gke_config(...).run()
ComposeLegacy(i) ==
  Compose(i, Cfg("XpkTask", "run", "bench_a", "none"), XpkRun(FALSE, FALSE, NoMetric))

LegacyParsed == \A i \in LegacyInsts : cfg[i].class # "none"

LegacyActiveTasks ==
  { p \in LegacyInsts \X AllTasks : st[p[1]][p[2]] = "running" }

\* Mutant: the scheduler starts every task that is ready.
ScheduleLegacy_Unbounded(i, t) == TaskStart(i, t)

\* The scheduler starts a ready task while fewer than concurrency task
\* instances of the DAG are running.
ScheduleLegacy(i, t) ==
  /\ Ready(i, t)
  /\ Cardinality(LegacyActiveTasks) < concurrency
  /\ TaskStart(i, t)

\* The number of task executions that raise is bounded, as in SpecMulti.
LegacyRaised == { p \in LegacyInsts \X AllTasks : p[2] \in raised[p[1]] }

LegacyMayRaise(i, t) ==
  st[i][t] = "running" /\ Cardinality(LegacyRaised) < MaxRaised

ExecuteLegacy(i) ==
  \/ \E t \in AllTasks : ScheduleLegacy(i, t)
  \/ \E t \in AllTasks : TaskUpstreamFailed(i, t)
  \/ \E t \in AllTasks : LegacyMayRaise(i, t) /\ TaskFail(i, t)
  \/ \E t \in AllTasks : Generate(i, t)
  \/ \E t \in AllTasks : PlainSuccess(i, t)
  \/ RunWorkload(i)
  \/ CleanUpWorkload(i)

NextLegacy ==
  \E i \in LegacyInsts :
    \/ (\A j \in 1..(i - 1) : cfg[j].class # "none") /\ ComposeLegacy(i)
    \/ LegacyParsed /\ ExecuteLegacy(i)

SpecLegacy == InitLegacy /\ [][NextLegacy]_vars

(***************************************************************************)
(* C24 (as claimed): in the legacy DAG at no time are more than 2 pipeline *)
(* instances running, an instance running from the start of its first     *)
(* task until the end of its last.                                         *)
(***************************************************************************)
InProgress(i) == Started(i, tasks[i]) /\ ~ Ended(i, tasks[i])

C24_Original ==
  Cardinality({ i \in LegacyInsts : InProgress(i) }) <= concurrency

(***************************************************************************)
(* C24 (amended): in the legacy DAG at no time are more than 2 tasks       *)
(* (steps) of its pipeline instances running; the number of instances      *)
(* that have started and not yet ended is not bounded by concurrency.      *)
(***************************************************************************)
C24_ActiveTasks ==
  Cardinality(LegacyActiveTasks) <= concurrency

\* Three instances under way, tasks of two of them running and the
\* workload of the third already submitted.
C24_Witness ==
  /\ \A i \in LegacyInsts : InProgress(i)
  /\ Cardinality({ p[1] : p \in LegacyActiveTasks }) = concurrency
  /\ \E i \in LegacyInsts :
       /\ st[i]["run_workload"] = "success"
       /\ \A t \in tasks[i] : st[i][t] # "running"

(***************************************************************************)
(* C25: run_with_run_name_generation replaces the run commands of the task *)
(* by the command "export <run_name_env>=<run name>", the run name being   *)
(* the one generate_run_name generates, followed by the original run       *)
(* commands in their order; run commands that held no such export hold     *)
(* exactly one afterwards.                                                 *)
(***************************************************************************)
IsRunNameExport(cmd, run_name_env) ==
  StartsWith(cmd, "export " \o run_name_env \o "=")

RunNameExports(cmds, run_name_env) ==
  { k \in DOMAIN cmds : IsRunNameExport(cmds[k], run_name_env) }

AllPostProcessTasks == PostProcessTasks \cup {"xplane_to_metrics"}

IsXpkRun(i) == cfg[i].class = "XpkTask" /\ cfg[i].entry = "run"

C26_SkipPostProcess ==
  \A i \in Insts :
    IsXpkRun(i) =>
      LET group == { "generate_workload_id", "run_workload", "wait_for_workload_start",
                     "wait_for_workload_completion", "clean_up_workload" }
                     \cup (IF cfg[i].gcs_supplied
                             THEN {} ELSE {"generate_gcs_folder_location"})
      IN /\ group \subseteq tasks[i]
         /\ { e \in edges[i] : e[2] \in WorkloadIdUsers } =
              { <<"generate_workload_id", t>> : t \in WorkloadIdUsers }
                \cup { <<IF cfg[i].gcs_supplied THEN "gcs_location"
                         ELSE "generate_gcs_folder_location", "run_workload">>,
                       <<"run_workload", "wait_for_workload_start">>,
                       <<"wait_for_workload_start", "wait_for_workload_completion">>,
                       <<"wait_for_workload_completion", "clean_up_workload">> }
         /\ After(i, "wait_for_workload_start", {"run_workload"})
         /\ After(i, "wait_for_workload_completion", {"wait_for_workload_start"})
         /\ Started(i, {"clean_up_workload"}) =>
              Ended(i, {"wait_for_workload_completion"})
         /\ IF cfg[i].skip_post_process
              THEN tasks[i] \cap AllPostProcessTasks = {}
              ELSE /\ PostProcessTasks \subseteq tasks[i]
                   /\ <<"clean_up_workload", "generate_process_id">> \in edges[i]
                   /\ Started(i, AllPostProcessTasks) =>
                        /\ Over(i, WorkloadIdUsers)
                        /\ Ended(i, {"clean_up_workload"})

\* A pipeline without Post-Process that is over, its workload run and
\* deleted.
C26_Witness ==
  \E i \in Insts :
    /\ IsXpkRun(i)
    /\ cfg[i].skip_post_process
    /\ Succeeded(i, tasks[i])
    /\ st[i]["clean_up_workload"] = "success"

(***************************************************************************)
(* C27: in the VmSsh pipeline on an existing instance the Provision stage  *)
(* is the generation of the SSH keys, the lookup of the instance (which    *)
(* returns its address) and the generation of the artifact location; the   *)
(* setup script is run at no stage, and the Run stage runs the test script *)
(* only.                                                                   *)
(***************************************************************************)
C27_ExistingInstance ==
  \A i \in Insts :
    IsExistingVm(i) =>
      /\ tasks[i] = {"generate_ssh_keys", "get_existing_resource",
                     "generate_gcs_folder_location", "run_model",
                     "clean_up_ssh_keys"} \cup PostProcessTasks
      /\ Stage(i, "provision") = {"generate_ssh_keys", "get_existing_resource",
                                  "generate_gcs_folder_location"}
      /\ st[i]["setup"] = "none"
      /\ \A p \in params[i] : p[3] # "setup_script"
      /\ { p \in params[i] : p[2] = "cmds" } = { <<"run_model", "cmds", "test_script">> }
      /\ Stage(i, "run") = {"run_model"}
      /\ st[i]["get_existing_resource"] = "success" =>
           xcom[i]["get_existing_resource"] =
             Val("ip_address", cfg[i].existing_instance_name.of)
      /\ st[i]["run_model"] \in Executed =>
           ArgVal(i, "run_model", "resource") = xcom[i]["get_existing_resource"]
      /\ \A c \in created : c[1] # i

\* The test script has run on the existing instance.
C27_Witness ==
  \E i \in Insts :
    /\ IsExistingVm(i)
    /\ Succeeded(i, Stage(i, "provision"))
    /\ st[i]["run_model"] = "success"

(***************************************************************************)
(* Fair scheduling: the scheduler keeps running the tasks that are ready,  *)
(* and a task that runs ends, with a result or an error.                   *)
(***************************************************************************)
SpecFair == Init /\ [][Next]_vars /\ WF_vars(Execute(1))

(***************************************************************************)
(* C28: for every backend, a composed pipeline instance eventually reaches *)
(* DONE or FAILED (every task has ended), and an instance none of whose    *)
(* tasks raised ends DONE: every task of every stage has succeeded, having *)
(* been run exactly once.                                                  *)
(***************************************************************************)
Done(i) == Quiescent(i) /\ Succeeded(i, tasks[i])
Failed(i) ==
  Quiescent(i) /\ \E t \in tasks[i] : st[i][t] \in {"failed", "upstream_failed"}

C28_Terminates ==
  /\ \A i \in {1} : Composed(i) ~> (Done(i) \/ Failed(i))
  /\ [](\A i \in {1} :
          (Quiescent(i) /\ raised[i] = {}) =>
            /\ Done(i)
            /\ \A t \in tasks[i] : tries[i][t] = 1)

\* A pipeline that is DONE, each of its tasks run once.
C28_Witness ==
  /\ Done(1)
  /\ raised[1] = {}
  /\ \A t \in tasks[1] : tries[1][t] = 1
  /\ cfg[1].class = "GpuGkeTask"

====
